---- MODULE Spec2Model ----
(***************************************************************************)
(* Model of the ceno-patch elliptic-curve point layer:                     *)
(*   crypto-primitives/src/secp256k1.rs, bn254.rs   curve point types      *)
(*   crypto-primitives/src/ecdsa/projective.rs      CenoProjectivePoint    *)
(*   syscall/src/lib.rs                             accelerator boundary   *)
(*                                                                         *)
(* The curve trait is instantiated with two small prime-order curves of    *)
(* the same shape as the real ones (y^2 = x^3 + b, a = 0), one field       *)
(* element per coordinate limb group:                                      *)
(*   "secp256k1":  y^2 = x^3 + 5 over F_7,  group order 7                  *)
(*   "bn254":      y^2 = x^3 + 3 over F_7,  group order 13, G = (1, 2)     *)
(***************************************************************************)
EXTENDS Integers, Sequences, FiniteSets, TLC

VARIABLES
    curve,   \* point type of the receiver: "secp256k1" or "bn254"
    pt,      \* the receiver (`self`) after the last operation
    op,      \* name of the last operation ("new" after construction)
    self0,   \* the receiver before the last operation
    arg,     \* right operand(s) of the last operation
    st,      \* "ok", "panic" (limbs of Infinity requested), "ub" (accelerator precondition broken)
    calls,   \* accelerator calls made by the last operation, in order
    nops,    \* number of operations applied so far
    lp, lq, lr,      \* inputs of the addition-law harness
    lstage,          \* harness position
    lpq, lqp, lqr, llhs, lrhs,   \* harness results
    mp, mq, ma, mb,  \* inputs of the linear-combination harness
    mstage, mlin, mpa, mqb, msum, \* linear-combination harness results
    mab,             \* mp * (ma + mb)
    be_bytes, nset,  \* 32-byte big-endian buffer and number of bytes written into it
    words, bits, conv, \* results of the two conversions, and whether they were run
    gbytes, gpoint,  \* a compressed encoding and a point handed to the group surface
    gres,            \* result of each encoding / cofactor operation run on them
    sitems,          \* sequence of points handed to Sum
    sform, stotal,   \* how it was summed ("value" / "ref") and the outcome
    vp, vq, vk,      \* operands of the operator-variant harness
    vstage, vrun,    \* harness position and the operator variant that was run
    va, vb           \* outcome of the reference form and of the variant

vars == <<curve, pt, op, self0, arg, st, calls, nops,
          lp, lq, lr, lstage, lpq, lqp, lqr, llhs, lrhs,
          mp, mq, ma, mb, mstage, mlin, mpa, mqb, msum, mab,
          be_bytes, nset, words, bits, conv,
          gbytes, gpoint, gres, sitems, sform, stotal,
          vp, vq, vk, vstage, vrun, va, vb>>

pointVars == <<curve, pt, op, self0, arg, st, calls, nops>>
lawVars   == <<lp, lq, lr, lstage, lpq, lqp, lqr, llhs, lrhs>>
linVars   == <<mp, mq, ma, mb, mstage, mlin, mpa, mqb, msum, mab>>
convVars  == <<be_bytes, nset, words, bits, conv>>
groupVars == <<gbytes, gpoint, gres>>
sumVars   == <<sitems, sform, stotal>>
varVars   == <<vp, vq, vk, vstage, vrun, va, vb>>
extVars   == <<groupVars, sumVars, varVars>>

(***************************************************************************)
(* Bounds                                                                  *)
(***************************************************************************)
MaxOps == 2        \* operations applied in a row to one receiver
MaxSetBytes == 2   \* bytes of the scalar buffer that are written (others stay 0)
MaxSumLen == 3     \* length of a sequence handed to Sum

(***************************************************************************)
(* Curve parameter sets (ECDSACurve / AffinePoint implementors)            *)
(***************************************************************************)
CurveNames == {"secp256k1", "bn254"}

FieldModulus(c) == 7
EQUATION_B(c) == IF c = "secp256k1" THEN 5 ELSE 3

Fp(c) == 0 .. (FieldModulus(c) - 1)

FNeg(c, a) == (FieldModulus(c) - a) % FieldModulus(c)
FSub(c, a, b) == (a + FieldModulus(c) - b) % FieldModulus(c)
FMul(c, a, b) == (a * b) % FieldModulus(c)
FInv(c, a) == CHOOSE z \in Fp(c) : (a % FieldModulus(c) = 0 /\ z = 0) \/ (z * a) % FieldModulus(c) = 1

(***************************************************************************)
(* Point representation: WeierstrassPoint<N> = Infinity | Affine(limbs),   *)
(* limbs = X limbs followed by Y limbs.                                    *)
(***************************************************************************)
LimbX(limbs) == limbs[1]
LimbY(limbs) == limbs[2]

OnCurve(c, limbs) ==
    FMul(c, LimbY(limbs), LimbY(limbs))
      = (FMul(c, LimbX(limbs), FMul(c, LimbX(limbs), LimbX(limbs))) + EQUATION_B(c)) % FieldModulus(c)

AllLimbs(c) == Fp(c) \X Fp(c)
CurveLimbs(c) == {l \in AllLimbs(c) : OnCurve(c, l)}

Infinity == [tag |-> "Infinity", limbs |-> <<>>]
Affine(limbs) == [tag |-> "Affine", limbs |-> limbs]

infinity == Infinity
is_infinity(p) == p.tag = "Infinity"
identity == infinity
is_identity(p) == is_infinity(p)

Points(c) == {Infinity} \cup {Affine(l) : l \in CurveLimbs(c)}
Order(c) == Cardinality(Points(c))

(***************************************************************************)
(* Outcome of an operation: the resulting point, how the operation ended,  *)
(* and the accelerator calls it made.  When st = "ub" the contents of pt   *)
(* are whatever the accelerator left in the buffer (resolved by Resolve).  *)
(***************************************************************************)
Out(p, s, cs) == [pt |-> p, st |-> s, calls |-> cs]

AddCall(c, p, q) == [fn |-> "add", curve |-> c, p |-> p, q |-> q]
DoubleCall(c, p) == [fn |-> "double", curve |-> c, p |-> p, q |-> <<>>]

\* outcome r of a step run after the steps of outcome o
After(o, r) == Out(r.pt, r.st, o.calls \o r.calls)

Garbage(c) == {Affine(l) : l \in AllLimbs(c)}

Resolve(c, o) ==
    IF o.st = "ub" THEN {Out(g, "ub", o.calls) : g \in Garbage(c)} ELSE {o}

(***************************************************************************)
(* Accelerated primitives (syscall/src/lib.rs): affine chord and tangent   *)
(* rules on the limb buffers; the first buffer is overwritten.             *)
(***************************************************************************)
\* third intersection of the line of slope lam through p (and q), reflected:
\* x3 = lam^2 - xp - xq,  y3 = lam (xp - x3) - yp
LineY(c, p, lam, x3) == <<x3, FSub(c, FMul(c, lam, FSub(c, LimbX(p), x3)), LimbY(p))>>
LineThird(c, p, q, lam) ==
    LineY(c, p, lam, FSub(c, FSub(c, FMul(c, lam, lam), LimbX(p)), LimbX(q)))

ChordSum(c, p, q) ==
    LineThird(c, p, q, FMul(c, FSub(c, LimbY(q), LimbY(p)), FInv(c, FSub(c, LimbX(q), LimbX(p)))))

TangentDouble(c, p) ==
    LineThird(c, p, p, FMul(c, FMul(c, 3, FMul(c, LimbX(p), LimbX(p))), FInv(c, FMul(c, 2, LimbY(p)))))

\* result tables (f @@ <<>> is f, evaluated once)
ChordMemo ==
    [c \in CurveNames |->
        ([pq \in CurveLimbs(c) \X CurveLimbs(c) |-> ChordSum(c, pq[1], pq[2])] @@ <<>>)] @@ <<>>
TangentMemo ==
    [c \in CurveNames |-> ([p \in CurveLimbs(c) |-> TangentDouble(c, p)] @@ <<>>)] @@ <<>>

\* add precondition: both on the curve, distinct and not inverse (X differs)
AddPre(c, p, q) == p \in CurveLimbs(c) /\ q \in CurveLimbs(c) /\ LimbX(p) # LimbX(q)
DoublePre(c, p) == p \in CurveLimbs(c)

accel_add(c, p, q) ==
    IF AddPre(c, p, q)
    THEN Out(Affine(ChordMemo[c][<<p, q>>]), "ok", <<AddCall(c, p, q)>>)
    ELSE Out(Affine(p), "ub", <<AddCall(c, p, q)>>)

accel_double(c, p) ==
    IF DoublePre(c, p)
    THEN Out(Affine(TangentMemo[c][p]), "ok", <<DoubleCall(c, p)>>)
    ELSE Out(Affine(p), "ub", <<DoubleCall(c, p)>>)

syscall_secp256k1_add(p, q) == accel_add("secp256k1", p, q)
syscall_secp256k1_double(p) == accel_double("secp256k1", p)
syscall_bn254_add(p, q) == accel_add("bn254", p, q)
syscall_bn254_double(p) == accel_double("bn254", p)

(***************************************************************************)
(* AffinePoint trait helpers that live in utils: limbs of a point (fails   *)
(* on Infinity) and the complete (Weierstrass) addition.                   *)
(***************************************************************************)
has_limbs(p) == p.tag = "Affine"

Panic(p) == Out(p, "panic", <<>>)

curve_accel_add(c, p, q) ==
    IF c = "secp256k1" THEN syscall_secp256k1_add(p, q) ELSE syscall_bn254_add(p, q)
curve_accel_double(c, p) ==
    IF c = "secp256k1" THEN syscall_secp256k1_double(p) ELSE syscall_bn254_double(p)

weierstrass_add_assign(c, self, other) ==
    IF is_infinity(other) THEN Out(self, "ok", <<>>)
    ELSE IF is_infinity(self) THEN Out(other, "ok", <<>>)
    ELSE IF self.limbs = other.limbs THEN curve_accel_double(c, self.limbs)
    ELSE IF LimbX(self.limbs) = LimbX(other.limbs) THEN Out(infinity, "ok", <<>>)
    ELSE curve_accel_add(c, self.limbs, other.limbs)

(***************************************************************************)
(* CenoSecp256k1Point (secp256k1.rs) and Bn254Point (bn254.rs)             *)
(***************************************************************************)
secp256k1_add_assign(self, other) ==
    IF ~has_limbs(self) THEN Panic(self)          \* self.limbs_mut()
    ELSE IF ~has_limbs(other) THEN Panic(self)    \* other.limbs_ref()
    ELSE syscall_secp256k1_add(self.limbs, other.limbs)

secp256k1_complete_add_assign_narrow(self, other) == secp256k1_add_assign(self, other)
secp256k1_complete_add_assign(self, other) == weierstrass_add_assign("secp256k1", self, other)

secp256k1_double_unguarded(self) ==
    IF ~has_limbs(self) THEN Panic(self) ELSE syscall_secp256k1_double(self.limbs)
secp256k1_double(self) ==
    IF self.tag = "Infinity" THEN Out(self, "ok", <<>>)
    ELSE syscall_secp256k1_double(self.limbs)

bn254_add_assign(self, other) ==
    IF ~has_limbs(self) THEN Panic(self)          \* self.limbs_mut()
    ELSE IF ~has_limbs(other) THEN Panic(self)    \* other.limbs_ref()
    ELSE syscall_bn254_add(self.limbs, other.limbs)

bn254_complete_add_assign_narrow(self, other) == bn254_add_assign(self, other)
bn254_complete_add_assign(self, other) == weierstrass_add_assign("bn254", self, other)

bn254_double(self) ==
    IF ~has_limbs(self) THEN Panic(self)          \* self.limbs_mut()
    ELSE syscall_bn254_double(self.limbs)

\* trait dispatch on the point type
add_assign(c, self, other) ==
    IF c = "secp256k1" THEN secp256k1_add_assign(self, other) ELSE bn254_add_assign(self, other)
complete_add_assign(c, self, other) ==
    IF c = "secp256k1" THEN secp256k1_complete_add_assign(self, other)
    ELSE bn254_complete_add_assign(self, other)
double(c, self) ==
    IF c = "secp256k1" THEN secp256k1_double(self) ELSE bn254_double(self)

(***************************************************************************)
(* Scalars: field elements of the group order, 32 big-endian bytes at the  *)
(* boundary (to_repr).  A u32 word is kept as its two 16-bit halves.       *)
(***************************************************************************)
Scalars(c) == 0 .. (Order(c) - 1)

\* Scalar + Scalar in the scalar field
scalar_add(c, a, b) == (a + b) % Order(c)

ByteIx == 1 .. 32
Pow2(e) == 2 ^ e

to_repr(k) ==
    [i \in ByteIx |-> IF 32 - i > 2 THEN 0 ELSE (k \div (256 ^ (32 - i))) % 256] @@ <<>>

Reverse(s) == [i \in 1 .. Len(s) |-> s[Len(s) + 1 - i]] @@ <<>>

u32_from_le_bytes(b) == [lo |-> b[1] + 256 * b[2], hi |-> b[3] + 256 * b[4]]

\* (word >> i) & 1
u32_bit(w, i) ==
    IF i < 16 THEN (w.lo \div Pow2(i)) % 2 ELSE (w.hi \div Pow2(i - 16)) % 2

words_from_le_bytes(rev) ==
    [w \in 1 .. 8 |-> u32_from_le_bytes(SubSeq(rev, 4 * (w - 1) + 1, 4 * w))] @@ <<>>
be_bytes_to_le_words(bytes) == words_from_le_bytes(Reverse(bytes))

\* bits[i * 8 + j] = ((byte >> j) & 1) == 1 for the i-th byte of the iteration
bits_from_bytes(iter) ==
    [n \in 0 .. 255 |->
        IF n \div 8 < Len(iter) THEN (iter[(n \div 8) + 1] \div Pow2(n % 8)) % 2 = 1 ELSE FALSE] @@ <<>>

\* variant that keeps the byte order
be_bytes_to_le_bits_noreverse(bytes) == bits_from_bytes(bytes)

be_bytes_to_le_bits(bytes) == bits_from_bytes(Reverse(bytes))

(***************************************************************************)
(* AffinePoint::mul_assign and multi_scalar_multiplication (utils):        *)
(* double-and-add over the little-endian bits through the complete law.    *)
(***************************************************************************)
\* loop state: accumulator, running power-of-two multiple(s), status, calls
MulState(res, temp, s, cs) == [res |-> res, temp |-> temp, st |-> s, calls |-> cs]

\* temp.double() after the addition a
mul_doubled(m, a, d) == MulState(a.pt, d.pt, d.st, m.calls \o a.calls \o d.calls)
mul_added(c, m, a) ==
    IF a.st # "ok" THEN MulState(a.pt, m.temp, a.st, m.calls \o a.calls)
    ELSE mul_doubled(m, a, double(c, m.temp))
mul_step(c, bit, m) ==
    mul_added(c, m, IF bit THEN complete_add_assign(c, m.res, m.temp) ELSE Out(m.res, "ok", <<>>))

RECURSIVE mul_bits(_, _, _, _)
mul_bits(c, word, i, m) ==
    IF i = 32 \/ m.st # "ok" THEN m
    ELSE mul_bits(c, word, i + 1, mul_step(c, u32_bit(word, i) = 1, m))

RECURSIVE mul_words(_, _, _, _)
mul_words(c, scalar, w, m) ==
    IF w > Len(scalar) \/ m.st # "ok" THEN m
    ELSE mul_words(c, scalar, w + 1, mul_bits(c, scalar[w], 0, m))

LoopOut(m) == Out(m.res, m.st, m.calls)

mul_assign(c, self, scalar) ==
    LoopOut(mul_words(c, scalar, 1, MulState(identity, self, "ok", <<>>)))

MsmState(res, temp_a, temp_b, s, cs) ==
    [res |-> res, temp_a |-> temp_a, temp_b |-> temp_b, st |-> s, calls |-> cs]

\* res += temp_a; res += temp_b; temp_a.double(); temp_b.double()
msm_doubled_b(m, rb, da, db) ==
    MsmState(rb.pt, da.pt, db.pt, db.st, m.calls \o rb.calls \o da.calls \o db.calls)
msm_doubled_a(c, m, rb, da) ==
    msm_doubled_b(m, rb, da, IF da.st = "ok" THEN double(c, m.temp_b) ELSE Out(m.temp_b, da.st, <<>>))
msm_added_b(c, m, rb) ==
    msm_doubled_a(c, m, rb, IF rb.st = "ok" THEN double(c, m.temp_a) ELSE Out(m.temp_a, rb.st, <<>>))
msm_added_a(c, b_bit, m, ra) ==
    msm_added_b(c, m, IF ra.st = "ok" /\ b_bit
                      THEN After(ra, complete_add_assign(c, ra.pt, m.temp_b))
                      ELSE ra)
msm_step(c, a_bit, b_bit, m) ==
    msm_added_a(c, b_bit, m,
                IF a_bit THEN complete_add_assign(c, m.res, m.temp_a) ELSE Out(m.res, "ok", <<>>))

RECURSIVE msm_bits(_, _, _, _, _, _)
msm_bits(c, a_bits_le, b_bits_le, i, stop, m) ==
    IF i = stop \/ m.st # "ok" THEN m
    ELSE msm_bits(c, a_bits_le, b_bits_le, i + 1, stop, msm_step(c, a_bits_le[i], b_bits_le[i], m))

RECURSIVE msm_blocks(_, _, _, _, _)
msm_blocks(c, a_bits_le, b_bits_le, blk, m) ==
    IF blk = 8 \/ m.st # "ok" THEN m
    ELSE msm_blocks(c, a_bits_le, b_bits_le, blk + 1,
                    msm_bits(c, a_bits_le, b_bits_le, 32 * blk, 32 * (blk + 1), m))

multi_scalar_multiplication(c, a_bits_le, a, b_bits_le, b) ==
    LoopOut(msm_blocks(c, a_bits_le, b_bits_le, 0, MsmState(identity, a, b, "ok", <<>>)))

(***************************************************************************)
(* CenoAffinePoint / CenoProjectivePoint (ecdsa/projective.rs).            *)
(* CenoProjectivePoint { inner: CenoAffinePoint { inner: SP1AffinePoint } }*)
(***************************************************************************)
SP1AffinePoint == "secp256k1"

CenoAffinePoint(p) == [inner |-> p]
CenoProjectivePoint(a) == [inner |-> a]

to_zkvm_point(self) == self.inner.inner
from_zkvm_point(p) == CenoProjectivePoint(CenoAffinePoint(p))

\* the receiver after an operation on as_mut_zkvm_point()
InPlace(self, o) == Out([self EXCEPT !.inner.inner = o.pt], o.st, o.calls)

ProjectivePoints == {from_zkvm_point(p) : p \in Points(SP1AffinePoint)}
AffinePoints == {CenoAffinePoint(p) : p \in Points(SP1AffinePoint)}

field_elements(a) == <<LimbX(a.inner.limbs), LimbY(a.inner.limbs)>>
from_field_elements_unchecked(x, y) == CenoAffinePoint(Affine(<<x, y>>))

\* variant that negates X and keeps Y
neg_xy_x(xy) == from_field_elements_unchecked(FNeg(SP1AffinePoint, xy[1]), xy[2])
neg_xy(xy) == from_field_elements_unchecked(xy[1], FNeg(SP1AffinePoint, xy[2]))
neg(self) ==
    IF is_identity(to_zkvm_point(self)) THEN self
    ELSE CenoProjectivePoint(neg_xy(field_elements(self.inner)))

\* Self::from_zkvm_point on the point of an outcome
Wrapped(o) == Out(from_zkvm_point(o.pt), o.st, o.calls)

group_double(self) == Wrapped(double(SP1AffinePoint, to_zkvm_point(self)))

lincomb_bits(x, a_bits_le, y, b_bits_le) ==
    Wrapped(multi_scalar_multiplication(SP1AffinePoint, a_bits_le, to_zkvm_point(x),
                                        b_bits_le, to_zkvm_point(y)))

\* variant pairing each scalar with the other point
lincomb_swapped(x, k, y, l) ==
    lincomb_bits(x, be_bytes_to_le_bits(to_repr(l)), y, be_bytes_to_le_bits(to_repr(k)))

lincomb(x, k, y, l) ==
    lincomb_bits(x, be_bytes_to_le_bits(to_repr(k)), y, be_bytes_to_le_bits(to_repr(l)))

mul(self, rhs) ==
    InPlace(self, mul_assign(SP1AffinePoint, to_zkvm_point(self), be_bytes_to_le_words(to_repr(rhs))))

mul_assign_scalar(self, rhs) ==
    InPlace(self, mul_assign(SP1AffinePoint, to_zkvm_point(self), be_bytes_to_le_words(to_repr(rhs))))

\* projective right operand, by value and by reference
add_pp(self, rhs) == InPlace(self, add_assign(SP1AffinePoint, to_zkvm_point(self), to_zkvm_point(rhs)))
add_pr(self, rhs) == InPlace(self, add_assign(SP1AffinePoint, to_zkvm_point(self), to_zkvm_point(rhs)))
sub_pp(self, rhs) == add_pp(self, neg(rhs))
sub_pr(self, rhs) == add_pp(self, neg(rhs))
add_assign_pp(self, rhs) == InPlace(self, add_assign(SP1AffinePoint, to_zkvm_point(self), to_zkvm_point(rhs)))
add_assign_pr(self, rhs) == InPlace(self, add_assign(SP1AffinePoint, to_zkvm_point(self), to_zkvm_point(rhs)))
sub_assign_pp(self, rhs) ==
    InPlace(self, add_assign(SP1AffinePoint, to_zkvm_point(self), to_zkvm_point(neg(rhs))))
sub_assign_pr(self, rhs) ==
    InPlace(self, add_assign(SP1AffinePoint, to_zkvm_point(self), to_zkvm_point(neg(rhs))))

\* affine right operand, by value and by reference
add_pa(self, rhs) == add_pp(self, CenoProjectivePoint(rhs))
add_par(self, rhs) == add_pp(self, CenoProjectivePoint(rhs))
add_assign_pa(self, rhs) == InPlace(self, add_assign(SP1AffinePoint, to_zkvm_point(self), rhs.inner))
add_assign_par(self, rhs) == InPlace(self, add_assign(SP1AffinePoint, to_zkvm_point(self), rhs.inner))
sub_pa(self, rhs) == sub_pp(self, CenoProjectivePoint(rhs))
sub_par(self, rhs) == sub_pp(self, CenoProjectivePoint(rhs))
sub_assign_pa(self, rhs) ==
    InPlace(self, add_assign(SP1AffinePoint, to_zkvm_point(self),
                             to_zkvm_point(neg(CenoProjectivePoint(rhs)))))
sub_assign_par(self, rhs) ==
    InPlace(self, add_assign(SP1AffinePoint, to_zkvm_point(self),
                             to_zkvm_point(neg(CenoProjectivePoint(rhs)))))

\* right operand kinds: projective/affine, by value/by reference
Variants == {"pp", "pr", "pa", "par"}
Operand(v, q) == IF v \in {"pp", "pr"} THEN from_zkvm_point(q) ELSE CenoAffinePoint(q)

add_v(v, self, q) ==
    CASE v = "pp" -> add_pp(self, Operand(v, q)) [] v = "pr" -> add_pr(self, Operand(v, q))
      [] v = "pa" -> add_pa(self, Operand(v, q)) [] v = "par" -> add_par(self, Operand(v, q))
sub_v(v, self, q) ==
    CASE v = "pp" -> sub_pp(self, Operand(v, q)) [] v = "pr" -> sub_pr(self, Operand(v, q))
      [] v = "pa" -> sub_pa(self, Operand(v, q)) [] v = "par" -> sub_par(self, Operand(v, q))
add_assign_v(v, self, q) ==
    CASE v = "pp" -> add_assign_pp(self, Operand(v, q)) [] v = "pr" -> add_assign_pr(self, Operand(v, q))
      [] v = "pa" -> add_assign_pa(self, Operand(v, q)) [] v = "par" -> add_assign_par(self, Operand(v, q))
sub_assign_v(v, self, q) ==
    CASE v = "pp" -> sub_assign_pp(self, Operand(v, q)) [] v = "pr" -> sub_assign_pr(self, Operand(v, q))
      [] v = "pa" -> sub_assign_pa(self, Operand(v, q)) [] v = "par" -> sub_assign_par(self, Operand(v, q))

projective_identity == CenoProjectivePoint(CenoAffinePoint(identity))

\* Sum: iter.fold(Self::identity(), |a, b| a + b); a failed step ends the fold
RECURSIVE fold_add(_, _, _)
fold_add(acc, iter, i) ==
    IF i > Len(iter) \/ acc.st # "ok" THEN acc
    ELSE fold_add(After(acc, add_pp(acc.pt, iter[i])), iter, i + 1)

sum(iter) == fold_add(Out(projective_identity, "ok", <<>>), iter, 1)

\* Iterator::cloned: a copy of every element, in order
cloned(iter) == [i \in 1 .. Len(iter) |-> iter[i]]

sum_ref(iter) == sum(cloned(iter))

MulMemo ==
    [p \in Points(SP1AffinePoint), k \in Scalars(SP1AffinePoint) |-> mul(from_zkvm_point(p), k)] @@ <<>>
MulAssignMemo ==
    [p \in Points(SP1AffinePoint), k \in Scalars(SP1AffinePoint) |->
        mul_assign_scalar(from_zkvm_point(p), k)] @@ <<>>

(***************************************************************************)
(* GroupEncoding and CofactorGroup for CenoProjectivePoint.                *)
(* A compressed point is a tag byte (2: even Y, 3: odd Y) followed by the  *)
(* big-endian X coordinate; the affine decoding lives in ecdsa/affine.rs.  *)
(***************************************************************************)
MaxEncX == 8       \* largest X value carried by an encoding (non-canonical from FieldModulus on)

CompressedTags == {0, 2, 3, 4}
CompressedPoint(tag, x) == [tag |-> tag, x |-> x]
Encodings == {CompressedPoint(t, x) : t \in CompressedTags, x \in 0 .. MaxEncX}

CtOption(value, is_some) == [is_some |-> is_some, value |-> value]

\* square roots of x^3 + b with the requested parity
SqrtCandidates(c, x, y_is_odd) ==
    {y \in Fp(c) : OnCurve(c, <<x, y>>) /\ (y % 2) = y_is_odd}

decompress(c, x, y_is_odd) ==
    IF x \in Fp(c) /\ SqrtCandidates(c, x, y_is_odd) # {}
    THEN CtOption(CenoAffinePoint(Affine(<<x, CHOOSE y \in SqrtCandidates(c, x, y_is_odd) : TRUE>>)), 1)
    ELSE CtOption(CenoAffinePoint(identity), 0)

affine_from_bytes(bytes) ==
    IF bytes.tag \in {2, 3}
    THEN decompress(SP1AffinePoint, bytes.x, bytes.tag - 2)
    ELSE CtOption(CenoAffinePoint(identity), 0)

\* CtOption::map(Into::into)
map_into(o) == CtOption(CenoProjectivePoint(o.value), o.is_some)

from_bytes(bytes) == map_into(affine_from_bytes(bytes))

\* variant that reports a value for every input
from_bytes_unchecked_some(bytes) == CtOption(from_bytes(bytes).value, 1)

from_bytes_unchecked(bytes) == from_bytes(bytes)

clear_cofactor(self) == self

\* variant that turns the identity away
into_subgroup_nonidentity(self) ==
    CtOption(self, IF is_identity(to_zkvm_point(self)) THEN 0 ELSE 1)

into_subgroup(self) == CtOption(self, 1)

is_torsion_free(self) == 1

(***************************************************************************)
(* State machine 1: operations applied to one receiver point.              *)
(***************************************************************************)
NoOut == Out(Infinity, "none", <<>>)
NoArg == [kind |-> "none", q |-> Infinity, k |-> 0]
PointArg(v, q) == [kind |-> v, q |-> q, k |-> 0]
ScalarArg(k) == [kind |-> "scalar", q |-> Infinity, k |-> k]

ZeroBytes == [i \in ByteIx |-> 0]

LawIdle ==
    /\ lp = Infinity /\ lq = Infinity /\ lr = Infinity /\ lstage = "idle"
    /\ lpq = NoOut /\ lqp = NoOut /\ lqr = NoOut /\ llhs = NoOut /\ lrhs = NoOut
LinIdle ==
    /\ mp = Infinity /\ mq = Infinity /\ ma = 0 /\ mb = 0 /\ mstage = "idle"
    /\ mlin = NoOut /\ mpa = NoOut /\ mqb = NoOut /\ msum = NoOut /\ mab = NoOut
ConvIdle ==
    /\ be_bytes = ZeroBytes /\ nset = 0 /\ words = <<>> /\ bits = <<>> /\ conv = FALSE
PointIdle ==
    /\ curve = SP1AffinePoint /\ pt = Infinity /\ op = "idle" /\ self0 = Infinity
    /\ arg = NoArg /\ st = "ok" /\ calls = <<>> /\ nops = 0

GroupOps ==
    {"affine_from_bytes", "from_bytes", "from_bytes_unchecked",
     "clear_cofactor", "into_subgroup", "is_torsion_free"}
NoResult == [done |-> FALSE, out |-> 0]
Result(v) == [done |-> TRUE, out |-> v]
NoRun == [group |-> "none", form |-> "none", kind |-> "none"]

GroupIdle ==
    /\ gbytes = [tag |-> 0, x |-> 0] /\ gpoint = Infinity /\ gres = [o \in GroupOps |-> NoResult]
SumIdle ==
    /\ sitems = <<>> /\ sform = "idle" /\ stotal = NoOut
VarIdle ==
    /\ vp = Infinity /\ vq = Infinity /\ vk = 0 /\ vstage = "idle" /\ vrun = NoRun
    /\ va = NoOut /\ vb = NoOut
ExtIdle == GroupIdle /\ SumIdle /\ VarIdle

Init ==
    /\ curve \in CurveNames
    /\ pt \in Points(curve)
    /\ op = "new" /\ self0 = pt /\ arg = NoArg /\ st = "ok" /\ calls = <<>> /\ nops = 0
    /\ LawIdle /\ LinIdle /\ ConvIdle /\ ExtIdle

Unwrap(o) == Out(to_zkvm_point(o.pt), o.st, o.calls)

Apply(name, a, o) ==
    /\ st = "ok"
    /\ nops < MaxOps
    /\ \E r \in Resolve(curve, o) :
          /\ pt' = r.pt
          /\ st' = r.st
          /\ calls' = r.calls
    /\ op' = name
    /\ self0' = pt
    /\ arg' = a
    /\ nops' = nops + 1
    /\ UNCHANGED <<extVars, curve, lawVars, linVars, convVars>>

PointDouble == Apply("point_double", NoArg, double(curve, pt))

PointAddAssign ==
    \E q \in Points(curve) : Apply("point_add_assign", PointArg("point", q), add_assign(curve, pt, q))

PointCompleteAddAssign ==
    \E q \in Points(curve) :
        Apply("point_complete_add_assign", PointArg("point", q), complete_add_assign(curve, pt, q))

ProjAdd ==
    /\ curve = SP1AffinePoint
    /\ \E v \in Variants, q \in Points(curve) :
          Apply("add", PointArg(v, q), Unwrap(add_v(v, from_zkvm_point(pt), q)))

ProjSub ==
    /\ curve = SP1AffinePoint
    /\ \E v \in Variants, q \in Points(curve) :
          Apply("sub", PointArg(v, q), Unwrap(sub_v(v, from_zkvm_point(pt), q)))

ProjAddAssign ==
    /\ curve = SP1AffinePoint
    /\ \E v \in Variants, q \in Points(curve) :
          Apply("add_assign", PointArg(v, q), Unwrap(add_assign_v(v, from_zkvm_point(pt), q)))

ProjSubAssign ==
    /\ curve = SP1AffinePoint
    /\ \E v \in Variants, q \in Points(curve) :
          Apply("sub_assign", PointArg(v, q), Unwrap(sub_assign_v(v, from_zkvm_point(pt), q)))

ProjNeg ==
    /\ curve = SP1AffinePoint
    /\ Apply("neg", NoArg, Out(to_zkvm_point(neg(from_zkvm_point(pt))), "ok", <<>>))

ProjDouble ==
    /\ curve = SP1AffinePoint
    /\ Apply("group_double", NoArg, Unwrap(group_double(from_zkvm_point(pt))))

ProjMul ==
    /\ curve = SP1AffinePoint
    /\ \E k \in Scalars(curve) : Apply("mul", ScalarArg(k), Unwrap(MulMemo[pt, k]))

ProjMulAssign ==
    /\ curve = SP1AffinePoint
    /\ \E k \in Scalars(curve) : Apply("mul_assign", ScalarArg(k), Unwrap(MulAssignMemo[pt, k]))

Next ==
    \/ PointDouble
    \/ PointAddAssign
    \/ PointCompleteAddAssign
    \/ ProjAdd
    \/ ProjSub
    \/ ProjAddAssign
    \/ ProjSubAssign
    \/ ProjNeg
    \/ ProjDouble
    \/ ProjMul
    \/ ProjMulAssign

Spec == Init /\ [][Next]_vars

(***************************************************************************)
(* State machine 2: the complete addition applied to drawn operands        *)
(* p, q, r in the order  p+q, q+p, q+r, (p+q)+r, p+(q+r).                  *)
(***************************************************************************)
InitLaw ==
    /\ curve \in CurveNames
    /\ pt = Infinity /\ op = "idle" /\ self0 = Infinity
    /\ arg = NoArg /\ st = "ok" /\ calls = <<>> /\ nops = 0
    /\ lp \in Points(curve) /\ lq \in Points(curve) /\ lr \in Points(curve)
    /\ lstage = "init"
    /\ lpq = NoOut /\ lqp = NoOut /\ lqr = NoOut /\ llhs = NoOut /\ lrhs = NoOut
    /\ LinIdle /\ ConvIdle /\ ExtIdle

\* a failed step ends the sequence
LawRunning == \A r \in {lpq, lqp, lqr, llhs, lrhs} : r.st \in {"none", "ok"}

LawAddPQ ==
    /\ lstage = "init"
    /\ \E r \in Resolve(curve, complete_add_assign(curve, lp, lq)) : lpq' = r
    /\ lstage' = "pq"
    /\ UNCHANGED <<extVars, pointVars, lp, lq, lr, lqp, lqr, llhs, lrhs, linVars, convVars>>

LawAddQP ==
    /\ lstage = "pq"
    /\ LawRunning
    /\ \E r \in Resolve(curve, complete_add_assign(curve, lq, lp)) : lqp' = r
    /\ lstage' = "qp"
    /\ UNCHANGED <<extVars, pointVars, lp, lq, lr, lpq, lqr, llhs, lrhs, linVars, convVars>>

LawAddQR ==
    /\ lstage = "qp"
    /\ LawRunning
    /\ \E r \in Resolve(curve, complete_add_assign(curve, lq, lr)) : lqr' = r
    /\ lstage' = "qr"
    /\ UNCHANGED <<extVars, pointVars, lp, lq, lr, lpq, lqp, llhs, lrhs, linVars, convVars>>

LawAddLeft ==
    /\ lstage = "qr"
    /\ LawRunning
    /\ \E r \in Resolve(curve, IF lpq.st = "ok"
                                 THEN After(lpq, complete_add_assign(curve, lpq.pt, lr))
                                 ELSE lpq) : llhs' = r
    /\ lstage' = "lhs"
    /\ UNCHANGED <<extVars, pointVars, lp, lq, lr, lpq, lqp, lqr, lrhs, linVars, convVars>>

LawAddRight ==
    /\ lstage = "lhs"
    /\ LawRunning
    /\ \E r \in Resolve(curve, IF lqr.st = "ok"
                                 THEN After(lqr, complete_add_assign(curve, lp, lqr.pt))
                                 ELSE lqr) : lrhs' = r
    /\ lstage' = "done"
    /\ UNCHANGED <<extVars, pointVars, lp, lq, lr, lpq, lqp, lqr, llhs, linVars, convVars>>

NextLaw ==
    \/ LawAddPQ
    \/ LawAddQP
    \/ LawAddQR
    \/ LawAddLeft
    \/ LawAddRight

SpecLaw == InitLaw /\ [][NextLaw]_vars

(***************************************************************************)
(* State machine 3: lincomb(p, a, q, b) next to p * a, q * b and their     *)
(* complete sum, on drawn points and scalars.                              *)
(***************************************************************************)
Brief(o) == [pt |-> o.pt, st |-> o.st, calls |-> <<>>]

InitLin ==
    /\ PointIdle /\ LawIdle /\ ConvIdle /\ ExtIdle
    /\ mp \in Points(SP1AffinePoint) /\ mq \in Points(SP1AffinePoint)
    /\ ma \in Scalars(SP1AffinePoint) /\ mb \in Scalars(SP1AffinePoint)
    /\ mstage = "init"
    /\ mlin = NoOut /\ mpa = NoOut /\ mqb = NoOut /\ msum = NoOut /\ mab = NoOut

LinLincomb ==
    /\ mstage = "init"
    /\ \E r \in Resolve(SP1AffinePoint,
                        Unwrap(lincomb(from_zkvm_point(mp), ma, from_zkvm_point(mq), mb))) :
          mlin' = Brief(r)
    /\ mstage' = "lincomb"
    /\ UNCHANGED <<extVars, pointVars, lawVars, convVars, mp, mq, ma, mb, mpa, mqb, msum, mab>>

LinMulA ==
    /\ mstage = "lincomb"
    /\ \E r \in Resolve(SP1AffinePoint, Unwrap(MulMemo[mp, ma])) : mpa' = Brief(r)
    /\ mstage' = "mul_a"
    /\ UNCHANGED <<extVars, pointVars, lawVars, convVars, mp, mq, ma, mb, mlin, mqb, msum, mab>>

LinMulB ==
    /\ mstage = "mul_a"
    /\ \E r \in Resolve(SP1AffinePoint, Unwrap(MulMemo[mq, mb])) : mqb' = Brief(r)
    /\ mstage' = "mul_b"
    /\ UNCHANGED <<extVars, pointVars, lawVars, convVars, mp, mq, ma, mb, mlin, mpa, msum, mab>>

LinSum ==
    /\ mstage = "mul_b"
    /\ \E r \in Resolve(SP1AffinePoint,
                        IF mpa.st = "ok" /\ mqb.st = "ok"
                        THEN complete_add_assign(SP1AffinePoint, mpa.pt, mqb.pt)
                        ELSE Out(mpa.pt, IF mpa.st = "ok" THEN mqb.st ELSE mpa.st, <<>>)) :
          msum' = Brief(r)
    /\ mstage' = "done"
    /\ UNCHANGED <<extVars, pointVars, lawVars, convVars, mp, mq, ma, mb, mlin, mpa, mqb, mab>>

\* mp * (ma + mb), the scalars added in the scalar field
LinMulSum ==
    /\ mstage = "done"
    /\ \E r \in Resolve(SP1AffinePoint, Unwrap(MulMemo[mp, scalar_add(SP1AffinePoint, ma, mb)])) :
          mab' = Brief(r)
    /\ mstage' = "mul_sum"
    /\ UNCHANGED <<extVars, pointVars, lawVars, convVars, mp, mq, ma, mb, mlin, mpa, mqb, msum>>

NextLin ==
    \/ LinLincomb
    \/ LinMulA
    \/ LinMulB
    \/ LinSum
    \/ LinMulSum

SpecLin == InitLin /\ [][NextLin]_vars

(***************************************************************************)
(* State machine 4: a 32-byte big-endian scalar buffer is filled in and    *)
(* then converted both ways.                                               *)
(***************************************************************************)
ByteSamples == {128, 107}

InitConv ==
    /\ PointIdle /\ LawIdle /\ LinIdle /\ ExtIdle
    /\ be_bytes = ZeroBytes /\ nset = 0 /\ words = <<>> /\ bits = <<>> /\ conv = FALSE

SetByte ==
    /\ ~conv
    /\ nset < MaxSetBytes
    /\ \E i \in ByteIx, v \in ByteSamples :
          /\ be_bytes[i] = 0
          /\ be_bytes' = [be_bytes EXCEPT ![i] = v]
    /\ nset' = nset + 1
    /\ UNCHANGED <<extVars, pointVars, lawVars, linVars, words, bits, conv>>

Convert ==
    /\ ~conv
    /\ words' = be_bytes_to_le_words(be_bytes)
    /\ bits' = be_bytes_to_le_bits(be_bytes)
    /\ conv' = TRUE
    /\ UNCHANGED <<extVars, pointVars, lawVars, linVars, be_bytes, nset>>

NextConv ==
    \/ SetByte
    \/ Convert

SpecConv == InitConv /\ [][NextConv]_vars

(***************************************************************************)
(* State machine 5: the encoding and cofactor operations, each run once on *)
(* a drawn compressed encoding / a drawn point.                            *)
(***************************************************************************)
InitGroup ==
    /\ PointIdle /\ LawIdle /\ LinIdle /\ ConvIdle /\ SumIdle /\ VarIdle
    /\ gbytes \in Encodings
    /\ gpoint \in Points(SP1AffinePoint)
    /\ gres = [o \in GroupOps |-> NoResult]

GroupRun(o, v) ==
    /\ ~gres[o].done
    /\ gres' = [gres EXCEPT ![o] = Result(v)]
    /\ UNCHANGED <<pointVars, lawVars, linVars, convVars, sumVars, varVars, gbytes, gpoint>>

AffineFromBytes == GroupRun("affine_from_bytes", affine_from_bytes(gbytes))
FromBytes == GroupRun("from_bytes", from_bytes(gbytes))
FromBytesUnchecked == GroupRun("from_bytes_unchecked", from_bytes_unchecked(gbytes))
ClearCofactor == GroupRun("clear_cofactor", clear_cofactor(from_zkvm_point(gpoint)))
IntoSubgroup == GroupRun("into_subgroup", into_subgroup(from_zkvm_point(gpoint)))
IsTorsionFree == GroupRun("is_torsion_free", is_torsion_free(from_zkvm_point(gpoint)))

NextGroup ==
    \/ AffineFromBytes
    \/ FromBytes
    \/ FromBytesUnchecked
    \/ ClearCofactor
    \/ IntoSubgroup
    \/ IsTorsionFree

SpecGroup == InitGroup /\ [][NextGroup]_vars

(***************************************************************************)
(* State machine 6: a sequence of points is collected and then summed, by  *)
(* value or by reference.                                                  *)
(***************************************************************************)
InitSum ==
    /\ PointIdle /\ LawIdle /\ LinIdle /\ ConvIdle /\ GroupIdle /\ VarIdle
    /\ sitems = <<>> /\ sform = "none" /\ stotal = NoOut

ProjSeq(items) == [i \in 1 .. Len(items) |-> from_zkvm_point(items[i])]

SumPush ==
    /\ sform = "none"
    /\ Len(sitems) < MaxSumLen
    /\ \E q \in Points(SP1AffinePoint) : sitems' = Append(sitems, q)
    /\ UNCHANGED <<pointVars, lawVars, linVars, convVars, groupVars, varVars, sform, stotal>>

SumDone(form, o) ==
    /\ sform = "none"
    /\ \E r \in Resolve(SP1AffinePoint, Unwrap(o)) : stotal' = r
    /\ sform' = form
    /\ UNCHANGED <<pointVars, lawVars, linVars, convVars, groupVars, varVars, sitems>>

SumByValue == SumDone("value", sum(ProjSeq(sitems)))
SumByRef == SumDone("ref", sum_ref(ProjSeq(sitems)))

NextSum ==
    \/ SumPush
    \/ SumByValue
    \/ SumByRef

SpecSum == InitSum /\ [][NextSum]_vars

(***************************************************************************)
(* State machine 7: one operation on drawn operands, first in its          *)
(* reference form (P + Q, P + negate(Q), P * k), then in one of its        *)
(* operator variants.                                                      *)
(***************************************************************************)
InitVar ==
    /\ PointIdle /\ LawIdle /\ LinIdle /\ ConvIdle /\ GroupIdle /\ SumIdle
    /\ vp \in Points(SP1AffinePoint) /\ vq \in Points(SP1AffinePoint)
    /\ vk = 0 /\ vstage = "init" /\ vrun = NoRun
    /\ va = NoOut /\ vb = NoOut

Run(group, form, kind) == [group |-> group, form |-> form, kind |-> kind]

VarReference(group, k, o) ==
    /\ vstage = "init"
    /\ \E r \in Resolve(SP1AffinePoint, Unwrap(o)) : va' = r
    /\ vk' = k
    /\ vrun' = Run(group, "none", "none")
    /\ vstage' = "ref"
    /\ UNCHANGED <<pointVars, lawVars, linVars, convVars, groupVars, sumVars, vp, vq, vb>>

VarRefAdd == VarReference("add", 0, add_pp(from_zkvm_point(vp), from_zkvm_point(vq)))
VarRefAddNeg == VarReference("sub", 0, add_pp(from_zkvm_point(vp), neg(from_zkvm_point(vq))))
VarRefMul == \E k \in Scalars(SP1AffinePoint) : VarReference("mul", k, MulMemo[vp, k])

VarVariant(group, form, kind, o) ==
    /\ vstage = "ref"
    /\ vrun.group = group
    /\ \E r \in Resolve(SP1AffinePoint, Unwrap(o)) : vb' = r
    /\ vrun' = Run(group, form, kind)
    /\ vstage' = "done"
    /\ UNCHANGED <<pointVars, lawVars, linVars, convVars, groupVars, sumVars, vp, vq, vk, va>>

VarAdd == \E v \in Variants : VarVariant("add", "add", v, add_v(v, from_zkvm_point(vp), vq))
VarAddAssign ==
    \E v \in Variants : VarVariant("add", "add_assign", v, add_assign_v(v, from_zkvm_point(vp), vq))
VarSub == \E v \in Variants : VarVariant("sub", "sub", v, sub_v(v, from_zkvm_point(vp), vq))
VarSubAssign ==
    \E v \in Variants : VarVariant("sub", "sub_assign", v, sub_assign_v(v, from_zkvm_point(vp), vq))
VarMulAssign == VarVariant("mul", "mul_assign", "scalar", MulAssignMemo[vp, vk])

NextVar ==
    \/ VarRefAdd
    \/ VarRefAddNeg
    \/ VarRefMul
    \/ VarAdd
    \/ VarAddAssign
    \/ VarSub
    \/ VarSubAssign
    \/ VarMulAssign

SpecVar == InitVar /\ [][NextVar]_vars

(***************************************************************************)
(* Properties                                                              *)
(***************************************************************************)
TypeOK ==
    /\ curve \in CurveNames
    /\ st \in {"ok", "panic", "ub"}
    /\ nops \in 0 .. MaxOps
    /\ st = "ok" => pt \in Points(curve)

PublicOps == {"add", "sub", "add_assign", "sub_assign"}

\* the right operand the addition law sees: negated for the subtractions
EffectiveRhs ==
    IF op \in {"sub", "sub_assign"} THEN to_zkvm_point(neg(from_zkvm_point(arg.q))) ELSE arg.q

AddCalls(cs) == {i \in 1 .. Len(cs) : cs[i].fn = "add"}
NarrowAddLegit(cs) ==
    \A i \in AddCalls(cs) : cs[i].p # cs[i].q /\ LimbX(cs[i].p) # LimbX(cs[i].q)

\* C1: every public add/sub/add_assign/sub_assign of CenoProjectivePoint, for
\* every kind of right operand, goes through the complete addition law: the
\* add syscall is invoked only with non-identity, distinct, non-inverse
\* operands (stated on the code; the code violates it).
C1_PublicOpsNarrowAddOnlyWhenLegit ==
    op \in PublicOps => NarrowAddLegit(calls)

\* C2: complete_add(self, other) returns, in this order: self if other is the
\* identity; other if self is the identity; accel_double(self) if the
\* coordinates are equal; the identity if X is equal and Y negated; otherwise
\* accel_add(self, other).  accel_add only in the last case, accel_double only
\* in the third, and every input pair has a defined result.
C2_CompleteAddDispatch ==
    op = "point_complete_add_assign" =>
        IF is_identity(arg.q) THEN st = "ok" /\ pt = self0 /\ calls = <<>>
        ELSE IF is_identity(self0) THEN st = "ok" /\ pt = arg.q /\ calls = <<>>
        ELSE IF self0.limbs = arg.q.limbs
             THEN /\ st = "ok"
                  /\ calls = <<DoubleCall(curve, self0.limbs)>>
                  /\ pt = Affine(TangentDouble(curve, self0.limbs))
        ELSE IF /\ LimbX(self0.limbs) = LimbX(arg.q.limbs)
                /\ LimbY(arg.q.limbs) = FNeg(curve, LimbY(self0.limbs))
             THEN st = "ok" /\ pt = identity /\ calls = <<>>
        ELSE /\ st = "ok"
             /\ calls = <<AddCall(curve, self0.limbs, arg.q.limbs)>>
             /\ pt = Affine(ChordSum(curve, self0.limbs, arg.q.limbs))

C2_Witness ==
    /\ op = "point_complete_add_assign"
    /\ st = "ok"
    /\ Len(calls) = 1
    /\ calls[1].fn = "add"
    /\ pt \in Points(curve) \ {identity, self0, arg.q}

\* C3: identity law: complete_add(p, identity) = p and complete_add(identity, p) = p
\* for every p, and the same for the public operators p + identity and
\* identity + p of CenoProjectivePoint (stated on the code; the public
\* operators violate it).
C3_IdentityLaw ==
    /\ (op \in {"point_complete_add_assign", "add"} /\ is_identity(arg.q)) => (st = "ok" /\ pt = self0)
    /\ (op \in {"point_complete_add_assign", "add"} /\ is_identity(self0)) => (st = "ok" /\ pt = arg.q)

\* C4: inverse law: complete_add(p, negate(p)) = identity for every non-identity
\* p; the public p - p and p -= p yield the identity (stated on the code; the
\* public subtraction violates it).
C4_InverseLaw ==
    /\ (/\ op = "point_complete_add_assign"
        /\ curve = SP1AffinePoint
        /\ ~is_identity(self0)
        /\ arg.q = to_zkvm_point(neg(from_zkvm_point(self0))))
          => (st = "ok" /\ pt = identity)
    /\ (op \in {"sub", "sub_assign"} /\ ~is_identity(self0) /\ arg.q = self0)
          => (st = "ok" /\ pt = identity)

\* C5: standalone doubling, for CenoSecp256k1Point, Bn254Point and
\* Group::double of CenoProjectivePoint: the identity doubles to the identity
\* with no accelerator call and no failure; a non-identity point makes exactly
\* one accel_double call on its limbs (stated on the code; Bn254Point
\* violates it).
C5_Doubling ==
    op \in {"point_double", "group_double"} =>
        IF is_identity(self0)
        THEN st = "ok" /\ pt = identity /\ calls = <<>>
        ELSE calls = <<DoubleCall(curve, self0.limbs)>>

\* C6: scalar multiplication (* and *=): k = 0 gives the identity for every
\* point, and the identity point gives the identity for every k, without a
\* call of the accelerated add and without failing.
C6_ScalarMulEdgeCases ==
    (op \in {"mul", "mul_assign"} /\ (arg.k = 0 \/ is_identity(self0))) =>
        /\ st = "ok"
        /\ pt = identity
        /\ AddCalls(calls) = {}
        /\ is_identity(self0) => calls = <<>>

C6_Witness ==
    /\ op \in {"mul", "mul_assign"}
    /\ arg.k = 0
    /\ ~is_identity(self0)
    /\ pt = identity
    /\ st = "ok"

\* C7: lincomb(p, a, q, b) equals complete_add(scalar_mul(p, a), scalar_mul(q, b))
\* for all points p, q and all scalars a, b.
C7_LincombEquivalence ==
    mstage \in {"done", "mul_sum"} =>
        /\ mlin.st = "ok"
        /\ mpa.st = "ok"
        /\ mqb.st = "ok"
        /\ msum.st = "ok"
        /\ mlin.pt = msum.pt

C7_Witness ==
    /\ mstage \in {"done", "mul_sum"}
    /\ ma # 0 /\ mb # 0 /\ ma # mb
    /\ ~is_identity(mp) /\ ~is_identity(mq) /\ mp # mq
    /\ mlin.pt = msum.pt
    /\ ~is_identity(mlin.pt)

\* C11: scalar multiplication homomorphism: for every point p and all scalars
\* a, b, p * (a + b) equals complete_add(p * a, p * b), including
\* a + b = 0 mod order and a = b; every step is defined.
C11_ScalarMulHomomorphism ==
    (mstage = "mul_sum" /\ mq = mp) =>
        /\ mpa.st = "ok"
        /\ mqb.st = "ok"
        /\ msum.st = "ok"
        /\ mab.st = "ok"
        /\ mab.pt = msum.pt

\* a + b wraps around the order, a # b, and the sum is a third multiple
C11_Witness ==
    /\ mstage = "mul_sum"
    /\ mq = mp
    /\ ~is_identity(mp)
    /\ ma # mb
    /\ ma + mb > Order(SP1AffinePoint)
    /\ mab.pt = msum.pt
    /\ mab.pt \notin {identity, mpa.pt, mqb.pt}

\* a + b = 0 mod order
C11_WitnessZeroSum ==
    /\ mstage = "mul_sum"
    /\ mq = mp
    /\ ~is_identity(mp)
    /\ ma # 0
    /\ scalar_add(SP1AffinePoint, ma, mb) = 0
    /\ is_identity(mab.pt)
    /\ is_identity(msum.pt)

\* C12: negate(p) maps the identity to the identity (returning before the
\* coordinates are read, with no accelerator call) and every other point
\* (x, y) to (x, -y); negating the result gives p back.
C12_Negation ==
    op = "neg" =>
        /\ st = "ok"
        /\ calls = <<>>
        /\ IF is_identity(self0)
           THEN pt = identity
           ELSE /\ has_limbs(pt)
                /\ LimbX(pt.limbs) = LimbX(self0.limbs)
                /\ LimbY(pt.limbs) = FNeg(curve, LimbY(self0.limbs))
        /\ to_zkvm_point(neg(from_zkvm_point(pt))) = self0

C12_Witness ==
    /\ op = "neg"
    /\ nops = 2
    /\ ~is_identity(self0)
    /\ pt # self0
    /\ pt \in Points(curve)
    /\ LimbX(pt.limbs) = LimbX(self0.limbs)

\* bit n of the integer whose big-endian bytes are B
BeBit(B, n) == (B[32 - (n \div 8)] \div Pow2(n % 8)) % 2 = 1

\* C8: the two scalar conversions agree bit for bit: bit b of word w of
\* be_bytes_to_le_words(B) is entry 32*w + b of be_bytes_to_le_bits(B), and
\* both are the little-endian bits of the integer B encodes (bit 0 is the
\* least significant bit of the last byte).
C8_ConversionsAgree ==
    conv =>
        /\ \A w \in 0 .. 7 : \A b \in 0 .. 31 :
              (u32_bit(words[w + 1], b) = 1) = bits[32 * w + b]
        /\ \A n \in 0 .. 255 : bits[n] = BeBit(be_bytes, n)

C8_Witness ==
    /\ conv
    /\ nset = MaxSetBytes
    /\ \E w \in 1 .. 8 : words[w].hi >= 32768
    /\ \E n \in 0 .. 255 : bits[n] /\ (n % 32) = 31

\* C9: commutativity: complete_add(p, q) = complete_add(q, p) for all p, q.
C9_Commutativity ==
    /\ lstage # "init" => lpq.st = "ok"
    /\ lstage \in {"qp", "qr", "lhs", "done"} => (lqp.st = "ok" /\ lpq.pt = lqp.pt)

C9_Witness ==
    /\ lstage = "qp"
    /\ ~is_identity(lp) /\ ~is_identity(lq)
    /\ lp # lq
    /\ Len(lpq.calls) = 1 /\ lpq.calls[1].fn = "add"
    /\ lpq.pt = lqp.pt

\* C10: associativity: complete_add(complete_add(p, q), r) =
\* complete_add(p, complete_add(q, r)) for all p, q, r.
C10_Associativity ==
    /\ lstage # "init" => lpq.st = "ok"
    /\ lstage \in {"qr", "lhs", "done"} => lqr.st = "ok"
    /\ lstage \in {"lhs", "done"} => llhs.st = "ok"
    /\ lstage = "done" => (lrhs.st = "ok" /\ llhs.pt = lrhs.pt)

C10_Witness ==
    /\ lstage = "done"
    /\ ~is_identity(lp) /\ ~is_identity(lq) /\ ~is_identity(lr)
    /\ is_identity(lpq.pt)
    /\ lqr.pt = lp
    /\ llhs.pt = lrhs.pt

\* the encoding names a point of the curve: parity tag, canonical X, and a
\* curve point with that X and that Y parity
ValidEncoding(bytes) ==
    /\ bytes.tag \in {2, 3}
    /\ \E l \in CurveLimbs(SP1AffinePoint) : LimbX(l) = bytes.x /\ LimbY(l) % 2 = bytes.tag - 2

\* C13: decoding failure is a value: from_bytes of an encoding that names no
\* curve point returns an empty CtOption (no failure of the call); it returns
\* a point exactly when the affine decoding does, the same point wrapped; and
\* from_bytes_unchecked returns what from_bytes returns, for every input.
C13_DecodingFailureIsValue ==
    /\ gres["from_bytes"].done =>
          /\ gres["from_bytes"].out.is_some \in {0, 1}
          /\ ~ValidEncoding(gbytes) => gres["from_bytes"].out.is_some = 0
          /\ gres["from_bytes"].out.is_some = affine_from_bytes(gbytes).is_some
          /\ gres["from_bytes"].out.is_some = 1 =>
                gres["from_bytes"].out.value = CenoProjectivePoint(affine_from_bytes(gbytes).value)
    /\ (gres["from_bytes"].done /\ gres["affine_from_bytes"].done) =>
          /\ gres["from_bytes"].out.is_some = gres["affine_from_bytes"].out.is_some
          /\ gres["from_bytes"].out.value.inner = gres["affine_from_bytes"].out.value
    /\ gres["from_bytes_unchecked"].done =>
          /\ gres["from_bytes_unchecked"].out = from_bytes(gbytes)
          /\ ~ValidEncoding(gbytes) => gres["from_bytes_unchecked"].out.is_some = 0
    /\ (gres["from_bytes"].done /\ gres["from_bytes_unchecked"].done) =>
          gres["from_bytes_unchecked"].out = gres["from_bytes"].out

\* an X with no curve point under a parity tag: all three decodings are empty
C13_Witness ==
    /\ gbytes.tag \in {2, 3}
    /\ gbytes.x \in Fp(SP1AffinePoint)
    /\ ~ValidEncoding(gbytes)
    /\ gres["affine_from_bytes"].done
    /\ gres["from_bytes"].done
    /\ gres["from_bytes_unchecked"].done
    /\ gres["from_bytes"].out.is_some = 0
    /\ gres["from_bytes_unchecked"].out.is_some = 0

\* a valid encoding decodes to the point it names
C13_WitnessValid ==
    /\ ValidEncoding(gbytes)
    /\ gres["from_bytes"].done
    /\ gres["from_bytes_unchecked"].done
    /\ gres["from_bytes"].out.is_some = 1
    /\ to_zkvm_point(gres["from_bytes"].out.value) \in Points(SP1AffinePoint) \ {identity}
    /\ LimbX(to_zkvm_point(gres["from_bytes"].out.value).limbs) = gbytes.x

\* C14: cofactor handling: for every point p, the identity included,
\* clear_cofactor(p) = p, is_torsion_free(p) is true, and into_subgroup(p) is
\* a present value equal to p.
C14_CofactorHandling ==
    /\ gres["clear_cofactor"].done => gres["clear_cofactor"].out = from_zkvm_point(gpoint)
    /\ gres["is_torsion_free"].done => gres["is_torsion_free"].out = 1
    /\ gres["into_subgroup"].done =>
          /\ gres["into_subgroup"].out.is_some = 1
          /\ gres["into_subgroup"].out.value = from_zkvm_point(gpoint)

C14_Witness ==
    /\ is_identity(gpoint)
    /\ gres["clear_cofactor"].done
    /\ gres["is_torsion_free"].done
    /\ gres["into_subgroup"].done
    /\ gres["into_subgroup"].out = CtOption(CenoProjectivePoint(CenoAffinePoint(identity)), 1)

\* the same on a point with coordinates
C14_WitnessAffine ==
    /\ ~is_identity(gpoint)
    /\ gres["clear_cofactor"].done
    /\ gres["is_torsion_free"].done
    /\ gres["into_subgroup"].done
    /\ gres["into_subgroup"].out.value = gres["clear_cofactor"].out

\* left fold of the complete addition from the identity: the group sum
RECURSIVE complete_fold(_, _, _, _)
complete_fold(c, acc, items, i) ==
    IF i > Len(items) THEN acc
    ELSE complete_fold(c, complete_add_assign(c, acc, items[i]).pt, items, i + 1)

GroupSum(c, items) == complete_fold(c, identity, items, 1)

\* C15: Sum over CenoProjectivePoint, by value or by reference, is the left
\* fold of + from the identity: the empty sequence sums to the identity, [p]
\* sums to p, every finite sequence sums to the group sum of its elements,
\* and every step is defined: the narrow accelerated add is never invoked
\* with an identity, equal or inverse operand (stated on the code; the fold
\* violates it).
C15_SumIsGroupSum ==
    sform \in {"value", "ref"} =>
        /\ stotal.st = "ok"
        /\ NarrowAddLegit(stotal.calls)
        /\ stotal.pt = GroupSum(SP1AffinePoint, sitems)

\* what the fold does: only the empty sequence has a sum
SumOnlyOfEmpty ==
    sform \in {"value", "ref"} =>
        IF sitems = <<>>
        THEN stotal = Out(identity, "ok", <<>>)
        ELSE stotal = Out(identity, "panic", <<>>)

VariantsAgreeWhereDefined ==
    vstage = "done" =>
        /\ va.st = vb.st
        /\ va.calls = vb.calls
        /\ va.st # "ub" => va.pt = vb.pt

\* a right operand passed by reference is left unchanged
RefOperandUnchanged == [][vq' = vq]_vars

====
